---- MODULE Spec2Model ----
(***************************************************************************)
(* Model of gulp/task-build-lang.js (BuildLangTask): the task that merges  *)
(* the per-module language files into one key-sorted JSON document.        *)
(*                                                                         *)
(* JavaScript strings that the code searches, cuts or splits (file paths,  *)
(* property names) are sequences of one-character strings, so that         *)
(* lastIndexOf, substr, split and join are computed character by           *)
(* character.  JavaScript indices are 0-based, TLA+ sequences 1-based.     *)
(* A JavaScript object is a sequence of <<key, value>> entries in          *)
(* property-insertion order (no key of the model is an array index, so     *)
(* insertion order is the enumeration order of for-in and Object.keys).    *)
(***************************************************************************)
EXTENDS Integers, Sequences, FiniteSets, TLC

VARIABLES pc, data, firstFile, consumed, emitted, written, serializeCalls, doneCalls

vars == <<pc, data, firstFile, consumed, emitted, written, serializeCalls, doneCalls>>

\* Largest number of files the upstream stages hand to the merge stage in one run.
MaxFiles == 3

-----------------------------------------------------------------------------
(* String primitives *)

Max(S) == CHOOSE m \in S : \A n \in S : n <= m

\* The characters of the model in ascending UTF-16 code unit order.
Ascii ==
    << ".", "/", "0", "1", "2", "3", "4", "5", "6", "7", "8", "9", ":", "C", "O",
       "P", "\\", "_", "a", "b", "c", "d", "e", "f", "g", "h", "i", "j", "k", "l",
       "m", "n", "o", "p", "q", "r", "s", "t", "u", "v", "w", "x", "y", "z" >>

charCodeAt(c) == CHOOSE i \in 1..Len(Ascii) : Ascii[i] = c

\* a < b for two strings, as Array.prototype.sort compares them by default.
RECURSIVE StrLess(_, _)
StrLess(a, b) ==
    IF b = <<>> THEN FALSE
    ELSE IF a = <<>> THEN TRUE
    ELSE IF Head(a) = Head(b) THEN StrLess(Tail(a), Tail(b))
    ELSE charCodeAt(Head(a)) < charCodeAt(Head(b))

\* The TLA+ string with the characters of s.
RECURSIVE Str(_)
Str(s) == IF s = <<>> THEN "" ELSE Head(s) \o Str(Tail(s))

\* String.prototype.lastIndexOf: the last 0-based position of pat in s, or -1.
lastIndexOf(s, pat) ==
    LET at == { i \in 0..(Len(s) - Len(pat)) : SubSeq(s, i + 1, i + Len(pat)) = pat }
    IN  IF at = {} THEN -1 ELSE Max(at)

\* String.prototype.substr(start) with one argument.
substr(s, start) ==
    LET from == IF start < 0 THEN (IF Len(s) + start < 0 THEN 0 ELSE Len(s) + start)
                ELSE start
    IN  SubSeq(s, from + 1, Len(s))

\* String.prototype.split on any one of the characters of seps.
RECURSIVE split(_, _)
split(s, seps) ==
    LET hits == { i \in 1..Len(s) : s[i] \in seps }
    IN  IF hits = {} THEN << s >>
        ELSE LET i == CHOOSE h \in hits : \A g \in hits : h <= g
             IN  << SubSeq(s, 1, i - 1) >> \o split(SubSeq(s, i + 1, Len(s)), seps)

\* Array.prototype.join of an array of strings.
RECURSIVE join(_, _)
join(parts, sep) ==
    IF parts = <<>> THEN <<>>
    ELSE IF Len(parts) = 1 THEN parts[1]
    ELSE parts[1] \o sep \o join(Tail(parts), sep)

\* Array.prototype.slice(begin, end) for 0 <= begin and an end counted from
\* the start (end >= 0) or from the end (end < 0) of the array.
slice(arr, begin, end) ==
    LET last == IF end < 0 THEN Len(arr) + end ELSE end
    IN  SubSeq(arr, begin + 1, last)

\* What a template literal renders for undefined.
undefined == << "u", "n", "d", "e", "f", "i", "n", "e", "d" >>

-----------------------------------------------------------------------------
(* Objects *)

ownKeys(obj) == [ i \in 1..Len(obj) |-> obj[i][1] ]

hasOwn(obj, key) == \E i \in 1..Len(obj) : obj[i][1] = key

get(obj, key) == obj[CHOOSE i \in 1..Len(obj) : obj[i][1] = key][2]

\* obj[key] = value: an existing property keeps its place, a new one goes last.
put(obj, key, value) ==
    IF hasOwn(obj, key)
    THEN [ i \in 1..Len(obj) |-> IF obj[i][1] = key THEN << key, value >> ELSE obj[i] ]
    ELSE Append(obj, << key, value >>)

-----------------------------------------------------------------------------
(* JSON *)

\* JSON.parse of a file's text.  The text is modelled by whether it is
\* well-formed and by the members of its top-level object in textual order;
\* a repeated member name keeps its first place and takes its last value.
RECURSIVE parseMembers(_, _)
parseMembers(members, obj) ==
    IF members = <<>> THEN obj
    ELSE parseMembers(Tail(members), put(obj, Head(members)[1], Head(members)[2]))

JSONparse(text) ==
    IF text.wellFormed
    THEN [ throws |-> FALSE, value |-> parseMembers(text.members, <<>>) ]
    ELSE [ throws |-> TRUE ]

\* JSON.stringify(obj, null, 4) of an object whose values are strings.
RECURSIVE stringifyMembers(_)
stringifyMembers(obj) ==
    LET line(e) == "    \"" \o Str(e[1]) \o "\": \"" \o e[2] \o "\""
    IN  IF Len(obj) = 1 THEN line(obj[1])
        ELSE line(obj[1]) \o ",\n" \o stringifyMembers(Tail(obj))

JSONstringify(obj) ==
    IF obj = <<>> THEN "{}" ELSE "{\n" \o stringifyMembers(obj) \o "\n}"

-----------------------------------------------------------------------------
(* BuildLangTask *)

slashSrcApp == << "/", "s", "r", "c", "/", "a", "p", "p", "/" >>
backSrcApp == << "\\", "s", "r", "c", "\\", "a", "p", "p", "\\" >>
slashSrc == << "/", "s", "r", "c", "/" >>
backSrc == << "\\", "s", "r", "c", "\\" >>

core == << "c", "o", "r", "e" >>
features == << "f", "e", "a", "t", "u", "r", "e", "s" >>
addons == << "a", "d", "d", "o", "n", "s" >>
assets == << "a", "s", "s", "e", "t", "s" >>

isNull(file) == file.kind = "null"
isStream(file) == file.kind = "stream"

hasOwnPropertyName ==
    << "h", "a", "s", "O", "w", "n", "P", "r", "o", "p", "e", "r", "t", "y" >>

\* The outcome of a call: the TypeError it throws, or what it returns.
TypeError == [ throws |-> TRUE ]
Returned(value) == [ throws |-> FALSE, value |-> value ]

\* obj.hasOwnProperty(...) is a call of a string, not of the inherited
\* method, when a parsed object has a member of that name of its own.
hasOwnPropertyThrows(obj) == hasOwn(obj, hasOwnPropertyName)

\* The assignments of addProperties, one for each property of the source.
RECURSIVE copyProperties(_, _, _)
copyProperties(target, source, prefix) ==
    IF source = <<>> THEN target
    ELSE copyProperties(put(target, prefix \o Head(source)[1], Head(source)[2]),
                        Tail(source), prefix)

\* addProperties(target, source, prefix): the target after the call, unless
\* the guard source.hasOwnProperty(property) of the first property throws.
addProperties(target, source, prefix) ==
    IF source # <<>> /\ hasOwnPropertyThrows(source) THEN TypeError
    ELSE Returned(copyProperties(target, source, prefix))

\* The part of treatFile that cuts the file path down to the key of data.
logicalPath(filePath) ==
    LET deepSlash == lastIndexOf(filePath, slashSrcApp)
        deep == IF deepSlash < 0 THEN lastIndexOf(filePath, backSrcApp) ELSE deepSlash
        shallowSlash == lastIndexOf(filePath, slashSrc)
        shallow == IF shallowSlash < 0 THEN lastIndexOf(filePath, backSrc)
                   ELSE shallowSlash
        prefixLength == IF deep < 0 THEN 5 ELSE 9
        srcPos == IF deep < 0 THEN shallow ELSE deep
    IN  substr(filePath, srcPos + prefixLength)

\* treatFile(file, data): data after the call.
treatFile(file, d) ==
    IF isNull(file) \/ isStream(file) THEN d
    ELSE LET filePath == logicalPath(file.path)
             parsed == JSONparse(file.contents)
         IN  IF parsed.throws THEN d       \* caught and logged
             ELSE put(d, filePath, parsed.value)

\* getPrefix reading the folder after core where it should read the one after
\* features.
getPrefixOffByOne(path) ==
    LET parts == split(path, { "/", "\\" })
        folders == SubSeq(parts, 1, Len(parts) - 1)
        filename == parts[Len(parts)]
        folder(i) == IF i < Len(folders) THEN folders[i + 1] ELSE undefined
        defined(i) == i < Len(folders)
    IN  IF defined(0) /\ folders[1] = core
        THEN IF defined(1) /\ folders[2] = features
             THEN core \o << "." >> \o folder(1) \o << "." >>
             ELSE core \o << "." >>
        ELSE IF defined(0) /\ folders[1] = addons
        THEN << "a", "d", "d", "o", "n", "." >>
                 \o join(slice(folders, 1, Len(folders)), << "_" >>) \o << "." >>
        ELSE IF defined(0) /\ folders[1] = assets
        THEN assets \o << "." >>
                 \o join(slice(split(filename, { "." }), 0, -1), << "." >>) \o << "." >>
        ELSE folder(0) \o << "." >> \o folder(1) \o << "." >>

\* getPrefix of treatMergedData.
getPrefix(path) ==
    LET parts == split(path, { "/", "\\" })
        folders == SubSeq(parts, 1, Len(parts) - 1)
        filename == parts[Len(parts)]
        folder(i) == IF i < Len(folders) THEN folders[i + 1] ELSE undefined
        defined(i) == i < Len(folders)
    IN  IF defined(0) /\ folders[1] = core
        THEN IF defined(1) /\ folders[2] = features
             THEN core \o << "." >> \o folder(2) \o << "." >>
             ELSE core \o << "." >>
        ELSE IF defined(0) /\ folders[1] = addons
        THEN << "a", "d", "d", "o", "n", "." >>
                 \o join(slice(folders, 1, Len(folders)), << "_" >>) \o << "." >>
        ELSE IF defined(0) /\ folders[1] = assets
        THEN assets \o << "." >>
                 \o join(slice(split(filename, { "." }), 0, -1), << "." >>) \o << "." >>
        ELSE folder(0) \o << "." >> \o folder(1) \o << "." >>

\* The loop of treatMergedData over the properties of data: merged after it,
\* unless a call of addProperties throws.
RECURSIVE mergeData(_, _)
mergeData(d, merged) ==
    IF d = <<>> THEN Returned(merged)
    ELSE LET added == addProperties(merged, Head(d)[2], getPrefix(Head(d)[1]))
         IN  IF added.throws THEN TypeError ELSE mergeData(Tail(d), added.value)

\* Object.keys(merged).sort(): the keys in ascending order.
RECURSIVE sort(_)
sort(keys) ==
    IF keys = <<>> THEN <<>>
    ELSE LET i == CHOOSE j \in 1..Len(keys) :
                      \A k \in 1..Len(keys) : ~StrLess(keys[k], keys[j])
             rest == [ k \in 1..(Len(keys) - 1) |-> IF k < i THEN keys[k] ELSE keys[k + 1] ]
         IN  << keys[i] >> \o sort(rest)

\* mergedOrdered of treatMergedData: the merged properties rebuilt in key
\* order, unless the guard data.hasOwnProperty(filepath) or addProperties
\* throws.
mergedOrdered(d) ==
    IF d # <<>> /\ hasOwnPropertyThrows(d) THEN TypeError
    ELSE LET merged == mergeData(d, <<>>)
             keys == sort(ownKeys(merged.value))
         IN  IF merged.throws THEN TypeError
             ELSE Returned([ i \in 1..Len(keys) |-> << keys[i], get(merged.value, keys[i]) >> ])

\* treatMergedData(data): the text of the buffer it returns, or the
\* TypeError it throws.
treatMergedData(d) ==
    LET ordered == mergedOrdered(d)
    IN  IF ordered.throws THEN TypeError ELSE Returned(JSONstringify(ordered.value))

-----------------------------------------------------------------------------
(* The files the upstream stages (gulp.src, slash, clipEmptyFiles) can hand *)
(* to the merge stage.                                                      *)

stringsJson == << "s", "t", "r", "i", "n", "g", "s", ".", "j", "s", "o", "n" >>
langJson == << "l", "a", "n", "g", ".", "j", "s", "o", "n" >>
enJson == << "e", "n", ".", "j", "s", "o", "n" >>
en == << "e", "n" >>
calendar == << "c", "a", "l", "e", "n", "d", "a", "r" >>
mod == << "m", "o", "d" >>
forum == << "f", "o", "r", "u", "m" >>
custom == << "c", "u", "s", "t", "o", "m" >>
plugin == << "p", "l", "u", "g", "i", "n" >>
src == << "s", "r", "c" >>
app == << "a", "p", "p" >>

\* Directories in front of the logical path: with the deep marker, with the
\* shallow marker only, with neither, and with both markers in both orders.
deepRoot == << <<>>, << "r" >>, src, app >>
shallowRoot == << <<>>, << "q" >>, src >>
driveRoot == << << "C", ":" >>, << "r" >>, src, app >>
noRoot == << <<>>, << "h" >>, << "m" >> >>
shallowThenDeepRoot == << <<>>, src, << "q" >>, src, app >>

slashPath(root, rest) == join(root \o rest, << "/" >>)
backPath(root, rest) == join(root \o rest, << "\\" >>)

\* Logical paths with all the segments their routing rule reads.
FullLogical ==
    { << core, stringsJson >>,
      << core, langJson >>,
      << core, features, calendar, stringsJson >>,
      << addons, mod, forum, stringsJson >>,
      << assets, enJson >>,
      << custom, plugin, stringsJson >> }

\* Logical paths with fewer segments than their routing rule reads.
ShortLogical ==
    { << addons, stringsJson >>,
      << core, features, stringsJson >>,
      << stringsJson >>,
      << assets, en >> }

keyA == << "a" >>
keyB == << "b" >>

textA == [ wellFormed |-> TRUE, members |-> << << keyA, "one" >> >> ]
textAB == [ wellFormed |-> TRUE, members |-> << << keyB, "two" >>, << keyA, "uno" >> >> ]
textB == [ wellFormed |-> TRUE, members |-> << << keyB, "zwei" >> >> ]
textBad == [ wellFormed |-> FALSE, members |-> << << keyA, "bad" >> >> ]
textOwn == [ wellFormed |-> TRUE, members |-> << << keyA, "one" >>, << hasOwnPropertyName, "x" >> >> ]

Buffer(path, text) == [ path |-> path, kind |-> "buffer", contents |-> text ]

Files ==
    \* the same logical path under two roots, and a second path with its prefix
    { Buffer(slashPath(deepRoot, << core, stringsJson >>), t) : t \in { textA, textAB, textBad } }
    \cup { Buffer(slashPath(shallowRoot, << core, stringsJson >>), textB),
           Buffer(slashPath(deepRoot, << core, langJson >>), textA),
           Buffer(slashPath(deepRoot, << core, langJson >>), textOwn) }
    \* the other routing rules, with and without the segments they read
    \cup { Buffer(slashPath(deepRoot, l), textA) :
               l \in FullLogical \ { << core, stringsJson >>, << core, langJson >> } }
    \cup { Buffer(slashPath(deepRoot, l), textB) : l \in ShortLogical }
    \* the other separator, both markers in both orders, and no marker
    \cup { Buffer(backPath(driveRoot, << core, features, calendar, stringsJson >>), textB),
           Buffer(slashPath(shallowThenDeepRoot, << core, langJson >>), textB),
           Buffer(slashPath(deepRoot, << core, src, stringsJson >>), textA),
           Buffer(slashPath(noRoot, << core, stringsJson >>), textA) }
    \* files without a buffer
    \cup { [ path |-> slashPath(deepRoot, << core >>), kind |-> "null", contents |-> textBad ],
           [ path |-> slashPath(shallowRoot, << core, langJson >>), kind |-> "stream", contents |-> textA ] }

-----------------------------------------------------------------------------
(* BuildLangTask.run: the through stage and what follows it *)

null == [ kind |-> "none" ]

Init ==
    /\ pc = "streaming"
    /\ data = <<>>
    /\ firstFile = null
    /\ consumed = <<>>
    /\ emitted = <<>>
    /\ written = <<>>
    /\ serializeCalls = 0
    /\ doneCalls = 0

\* A write function that emits the document merged so far after each file.
WriteEmitsEachTime(file) ==
    /\ pc = "streaming"
    /\ Len(consumed) < MaxFiles
    /\ \A i \in 1..Len(consumed) : consumed[i].path # file.path
    /\ firstFile' = IF firstFile = null THEN file ELSE firstFile
    /\ data' = treatFile(file, data)
    /\ consumed' = Append(consumed, file)
    /\ LET treated == treatMergedData(treatFile(file, data))
       IN  emitted' = IF treated.throws THEN emitted
                      ELSE << [ path |-> enJson, contents |-> treated.value ] >>
    /\ UNCHANGED << pc, written, serializeCalls, doneCalls >>

\* The write function of the through stage, called with the next file.
\* gulp.src hands over each path of the file system once.
Write(file) ==
    /\ pc = "streaming"
    /\ Len(consumed) < MaxFiles
    /\ \A i \in 1..Len(consumed) : consumed[i].path # file.path
    /\ firstFile' = IF firstFile = null THEN file ELSE firstFile
    /\ data' = treatFile(file, data)
    /\ consumed' = Append(consumed, file)
    /\ UNCHANGED << pc, emitted, written, serializeCalls, doneCalls >>

\* The input has not ended: through has yet to call its end function.
EndPending == pc = "streaming"

\* gulp.dest has yet to write a file the through stage emitted.
DestPending == pc = "ended" /\ Len(written) < Len(emitted)

\* The destination stream has written all it was given and has yet to end.
DonePending == pc = "ended" /\ Len(written) = Len(emitted)

\* The end function of the through stage, called when the input has ended.
\* A TypeError thrown by treatMergedData leaves it before it emits the file
\* and the end of the stream: nothing is written and done is not called.
End ==
    /\ EndPending
    /\ IF firstFile # null
       THEN LET treated == treatMergedData(data)
            IN  /\ serializeCalls' = serializeCalls + 1
                /\ IF treated.throws
                   THEN /\ UNCHANGED emitted     \* neither emit is reached
                        /\ pc' = "crashed"
                   ELSE /\ emitted' = Append(emitted, [ path |-> enJson, contents |-> treated.value ])
                        /\ pc' = "ended"
       ELSE /\ UNCHANGED << emitted, serializeCalls >>
            /\ pc' = "ended"
    /\ UNCHANGED << data, firstFile, consumed, written, doneCalls >>

\* gulp.dest writes a file the through stage emitted.
Dest ==
    /\ DestPending
    /\ written' = Append(written, emitted[Len(written) + 1])
    /\ UNCHANGED << pc, data, firstFile, consumed, emitted, serializeCalls, doneCalls >>

\* The end of the destination stream calls done.
Done ==
    /\ DonePending
    /\ doneCalls' = doneCalls + 1
    /\ pc' = "done"
    /\ UNCHANGED << data, firstFile, consumed, emitted, written, serializeCalls >>

Next ==
    \/ \E file \in Files : Write(file)
    \/ End
    \/ Dest
    \/ Done

Spec == Init /\ [][Next]_vars

-----------------------------------------------------------------------------
(* Vocabulary of the properties *)

ToSet(seq) == { seq[i] : i \in 1..Len(seq) }

Contains(s, pat) == \E i \in 1..(Len(s) - Len(pat) + 1) : SubSeq(s, i, i + Len(pat) - 1) = pat

HasDeepMarker(path) == Contains(path, slashSrcApp) \/ Contains(path, backSrcApp)
HasShallowMarker(path) == Contains(path, slashSrc) \/ Contains(path, backSrc)
HasMarker(path) == HasDeepMarker(path) \/ HasShallowMarker(path)

\* The file reaches JSON.parse.
IsBuffer(file) == file.kind = "buffer"
Malformed(file) == IsBuffer(file) /\ ~file.contents.wellFormed
Parses(file) == IsBuffer(file) /\ file.contents.wellFormed

\* The member names written in a file's text.
MemberNames(file) == { m[1] : m \in ToSet(file.contents.members) }

\* The value the text of a file gives a member: that of its last occurrence.
MemberValue(file, name) ==
    LET at == { i \in 1..Len(file.contents.members) : file.contents.members[i][1] = name }
    IN  file.contents.members[Max(at)][2]

PrefixOf(file) == getPrefix(logicalPath(file.path))

PrefixedKeys(file) == { PrefixOf(file) \o name : name \in MemberNames(file) }

\* The run has ended: done was called, or the end function threw.
Stopped == pc \in { "done", "crashed" }

\* The document the run serializes.
Document == mergedOrdered(data).value

DocumentKeys == ToSet(ownKeys(Document))

\* data after treatFile on each file of a sequence in turn.
RECURSIVE accumulate(_, _)
accumulate(files, d) ==
    IF files = <<>> THEN d ELSE accumulate(Tail(files), treatFile(Head(files), d))

Reorderings(seq) ==
    { [ i \in 1..Len(seq) |-> seq[f[i]] ] :
        f \in { g \in [ 1..Len(seq) -> 1..Len(seq) ] : \A i, j \in 1..Len(seq) : g[i] = g[j] => i = j } }

\* A path with every separator of one convention replaced by the other's.
OtherConvention(path) ==
    [ i \in 1..Len(path) |-> IF path[i] = "/" THEN "\\"
                             ELSE IF path[i] = "\\" THEN "/" ELSE path[i] ]

-----------------------------------------------------------------------------
(* C1 *)

AllParseWithMarker ==
    /\ consumed # <<>>
    /\ \A i \in 1..Len(consumed) : Parses(consumed[i]) /\ HasMarker(consumed[i].path)

\* C1: when every artifact of a non-empty run parses and has a source-root
\* marker, the keys of the merged document are exactly the prefixed keys of
\* all the artifacts, in ascending order, also when two artifacts have the
\* same logical path.
C1_KeysAreSortedUnion ==
    (pc = "done" /\ AllParseWithMarker) =>
        /\ Len(written) = 1
        /\ written[1].contents = JSONstringify(Document)
        /\ DocumentKeys = UNION { PrefixedKeys(consumed[i]) : i \in 1..Len(consumed) }
        /\ \A i, j \in 1..Len(Document) : i < j => StrLess(Document[i][1], Document[j][1])

-----------------------------------------------------------------------------
(* C2 *)

\* The artifacts of the run, by position, that parse and produce the key.
Producers(key) ==
    { i \in 1..Len(consumed) : Parses(consumed[i]) /\ key \in PrefixedKeys(consumed[i]) }

\* The value artifact i gives the prefixed key.
ProducedValue(i, key) ==
    MemberValue(consumed[i], SubSeq(key, Len(PrefixOf(consumed[i])) + 1, Len(key)))

\* C2: a prefixed key that two or more artifacts of the run produce has, in
\* the merged document, the value of the artifact discovered last among them.
C2_LastDiscoveredWins ==
    pc = "done" =>
        \A i \in 1..Len(consumed) :
            Parses(consumed[i]) =>
                \A key \in PrefixedKeys(consumed[i]) :
                    Cardinality(Producers(key)) >= 2 =>
                        /\ hasOwn(Document, key)
                        /\ get(Document, key) = ProducedValue(Max(Producers(key)), key)

-----------------------------------------------------------------------------
(* C3 *)

Segments(path) == split(path, { "/", "\\" })

\* The name without its last "." and what follows it.
WithoutExtension(name) ==
    SubSeq(name, 1, Max({ i \in 1..Len(name) : name[i] = "." }) - 1)

\* The directories between the first one and the file name, separators
\* replaced by "_".
Underscored(path) ==
    LET segs == Segments(path)
        from == Len(segs[1]) + 2
        to == Len(path) - Len(segs[Len(segs)]) - 1
    IN  [ i \in 1..(to - from + 1) |->
            IF path[from + i - 1] \in { "/", "\\" } THEN "_" ELSE path[from + i - 1] ]

\* The path has every segment, and the extension, its routing rule names.
HasNamedSegments(path) ==
    LET segs == Segments(path)
        n == Len(segs)
    IN  /\ n >= 2
        /\ segs[1] = core => (n >= 3 /\ segs[2] = features => n >= 4)
        /\ segs[1] = assets => "." \in ToSet(segs[n])
        /\ segs[1] \notin { core, addons, assets } => n >= 3

\* The prefix the routing rules give a path, as text.
RoutedPrefix(path) ==
    LET segs == Segments(path)
        n == Len(segs)
    IN  CASE segs[1] = core /\ n >= 3 /\ segs[2] = features -> "core." \o Str(segs[3]) \o "."
          [] segs[1] = core /\ ~(n >= 3 /\ segs[2] = features) -> "core."
          [] segs[1] = addons -> "addon." \o Str(Underscored(path)) \o "."
          [] segs[1] = assets -> "assets." \o Str(WithoutExtension(segs[n])) \o "."
          [] OTHER -> Str(segs[1]) \o "." \o Str(segs[2]) \o "."

\* The prefixes of the five paths the specification lists.
ListedPrefix(path, prefix) ==
    /\ path = "core/features/calendar/strings.json" => prefix = "core.calendar."
    /\ path = "core/strings.json" => prefix = "core."
    /\ path = "addons/mod/forum/strings.json" => prefix = "addon.mod_forum."
    /\ path = "assets/en.json" => prefix = "assets.en."
    /\ path = "custom/plugin/strings.json" => prefix = "custom.plugin."

\* C3: when the run has ended, every logical path of the merged data that
\* has what its rule names (a third segment after core/features, an
\* extension on the file name under assets, two segments before the file
\* name otherwise) was given the prefix of its rule: core.<third>. or core.,
\* addon.<segments after addons joined by _>., assets.<file name without its
\* final extension>., <first>.<second>.; the five listed paths have their
\* listed prefixes; and the keys of the path are in the document of a run
\* that is done under that prefix.
C3_PrefixFollowsRoutingRules ==
    Stopped =>
        \A i \in 1..Len(data) :
            LET path == data[i][1]
                prefix == getPrefix(path)
                text == Str(prefix)
            IN  HasNamedSegments(path) =>
                    /\ text = RoutedPrefix(path)
                    /\ ListedPrefix(Str(path), text)
                    /\ pc = "done" =>
                           \A j \in 1..Len(data[i][2]) :
                               hasOwn(Document, prefix \o data[i][2][j][1])

\* A finished run that merged the addons path and the features path of the list.
C3_Witness ==
    /\ pc = "done"
    /\ \E i \in 1..Len(data) : Str(data[i][1]) = "addons/mod/forum/strings.json"
    /\ \E i \in 1..Len(data) : Str(data[i][1]) = "core\\features\\calendar\\strings.json"
    /\ \E i \in 1..Len(data) : Str(data[i][1]) = "assets/en.json"
    /\ Str(ownKeys(Document)[1]) = "addon.mod_forum.a"

-----------------------------------------------------------------------------
(* C4 *)

\* The pieces a prefix or a path is made of.
Pieces(s) == ToSet(split(s, { "/", "\\", ".", "_" }))

\* C4: every logical path that reaches getPrefix gets a non-empty prefix
\* that ends with one "." and not with two, made only of segments of the path
\* (and of the fixed word addon).
C4_PrefixWellFormed ==
    \A i \in 1..Len(data) :
        LET path == data[i][1]
            prefix == getPrefix(path)
        IN  /\ Len(prefix) >= 1
            /\ prefix[Len(prefix)] = "."
            /\ Len(prefix) >= 2 => prefix[Len(prefix) - 1] # "."
            /\ Pieces(SubSeq(prefix, 1, Len(prefix) - 1))
                   \subseteq (Pieces(path) \cup { << "a", "d", "d", "o", "n" >> })

-----------------------------------------------------------------------------
(* C5 *)

NotMalformed(file) == ~Malformed(file)

\* C5: a run with malformed artifacts still completes and writes its
\* document; the data are what the other artifacts alone accumulate; the
\* document has every prefixed key of every artifact that parsed, and no key
\* that only a malformed artifact names.
C5_MalformedArtifactsSkipped ==
    (Stopped /\ \E i \in 1..Len(consumed) : Malformed(consumed[i])) =>
        /\ pc = "done"
        /\ doneCalls = 1
        /\ Len(written) = 1
        /\ data = accumulate(SelectSeq(consumed, NotMalformed), <<>>)
        /\ \A i \in 1..Len(consumed) :
               Parses(consumed[i]) => PrefixedKeys(consumed[i]) \subseteq DocumentKeys
        /\ \A i \in 1..Len(consumed) :
               Malformed(consumed[i]) =>
                   \A key \in PrefixedKeys(consumed[i]) \cap DocumentKeys : Producers(key) # {}

-----------------------------------------------------------------------------
(* C6 *)

NoneParses == \A i \in 1..Len(consumed) : ~Parses(consumed[i])

\* C6: a run that has ended has written a document if and only if a file
\* reached the merge stage; when no file that reached it was valid the
\* document is empty, and in that case and when no file reached it done has
\* been called once.
C6_OutputIffFileReached ==
    /\ Stopped => (written # <<>> <=> consumed # <<>>) /\ Len(written) <= 1
    /\ (Stopped /\ NoneParses) =>
           /\ pc = "done"
           /\ doneCalls = 1
           /\ consumed # <<>> => written[1].contents = "{}"

-----------------------------------------------------------------------------
(* C7 *)

KeysProduced(file) == IF Parses(file) THEN PrefixedKeys(file) ELSE {}

PairwiseDistinctKeys ==
    \A i, j \in 1..Len(consumed) :
        i # j => KeysProduced(consumed[i]) \cap KeysProduced(consumed[j]) = {}

\* C7: the bytes written are those of serializing the merged data again, and
\* when no two artifacts produce a common prefixed key they are the bytes of
\* the run over the same artifacts in any other order.
C7_OutputIndependentOfOrder ==
    (pc = "done" /\ consumed # <<>>) =>
        /\ treatMergedData(data) = Returned(written[1].contents)
        /\ PairwiseDistinctKeys =>
               \A other \in Reorderings(consumed) :
                   treatMergedData(accumulate(other, <<>>)) = Returned(written[1].contents)

-----------------------------------------------------------------------------
(* C8 *)

\* s from its 1-based position i on.
From(s, i) == SubSeq(s, i, Len(s))

FollowsDeepMarker(path, logical) ==
    \E i \in 1..Len(path) :
        /\ SubSeq(path, i, i + 8) \in { slashSrcApp, backSrcApp }
        /\ logical = From(path, i + 9)

FollowsShallowMarker(path, logical) ==
    \E i \in 1..Len(path) :
        /\ SubSeq(path, i, i + 4) \in { slashSrc, backSrc }
        /\ logical = From(path, i + 5)

\* C8: the logical path of a file is what follows the deep marker when the
\* path has one, what follows the shallow marker when it has only that, and
\* the path written in the other separator convention has the same logical
\* path and the same prefix.
C8_DeepMarkerAndSeparators ==
    \A i \in 1..Len(consumed) :
        LET path == consumed[i].path
            logical == logicalPath(path)
            other == logicalPath(OtherConvention(path))
        IN  /\ HasDeepMarker(path) => FollowsDeepMarker(path, logical)
            /\ (HasShallowMarker(path) /\ ~HasDeepMarker(path)) =>
                   FollowsShallowMarker(path, logical)
            /\ HasMarker(path) => other = logical /\ getPrefix(other) = getPrefix(logical)

-----------------------------------------------------------------------------
(* C9 *)

WithMarker(file) == HasMarker(file.path)

\* C9: an artifact whose path has no source-root marker is skipped: the data
\* are what the artifacts with a marker alone accumulate, and so is the
\* document written.
C9_UnmarkedArtifactsSkipped ==
    /\ data = accumulate(SelectSeq(consumed, WithMarker), <<>>)
    /\ (pc = "done" /\ consumed # <<>>) =>
           treatMergedData(accumulate(SelectSeq(consumed, WithMarker), <<>>))
               = Returned(written[1].contents)

-----------------------------------------------------------------------------
(* C10 *)

C10_State ==
    /\ serializeCalls <= 1
    /\ Len(emitted) <= 1
    /\ doneCalls <= 1
    /\ emitted # <<>> => pc # "streaming"
    /\ doneCalls > 0 => pc = "done" /\ written = emitted

C10_Step ==
    /\ emitted' # emitted =>
           /\ pc = "streaming" /\ pc' = "ended"
           /\ serializeCalls' = serializeCalls + 1
           /\ treatMergedData(accumulate(consumed, <<>>)) = Returned(emitted'[1].contents)
    /\ serializeCalls' # serializeCalls => pc = "streaming" /\ pc' # "streaming"
    /\ pc # "streaming" => consumed' = consumed /\ data' = data /\ pc' # "streaming"
    /\ doneCalls' # doneCalls => written = emitted /\ pc = "ended"

\* C10: a run serializes the merged data at most once and emits at most one
\* document, when the input has ended and every file has been treated; no
\* file is treated afterwards, nothing is emitted while files are consumed,
\* and done is called after the emitted document has been written.
C10_SingleEmissionAfterInput == [] C10_State /\ [][C10_Step]_vars

\* A finished run of two or more files, its one document written.
C10_Witness ==
    /\ pc = "done"
    /\ Len(consumed) >= 2
    /\ serializeCalls = 1
    /\ Len(written) = 1
    /\ written = emitted
    /\ doneCalls = 1

====
